---- MODULE Spec2Model ----
(***************************************************************************)
(* Model of the kidsCanDraw ("Little Picasso") drawing surface:            *)
(*   - src/utils/floodFill.ts      the region flood fill on the raw RGBA   *)
(*                                 byte buffer,                            *)
(*   - src/components/Canvas.tsx   the canvas component: strokes, bucket,  *)
(*                                 clear, undo, import, snapshot history,  *)
(*   - src/App.tsx                 the triggers and the import pipeline.   *)
(***************************************************************************)
EXTENDS Integers, Sequences, FiniteSets, TLC

(***************************************************************************)
(* Values                                                                  *)
(***************************************************************************)

\* JavaScript's undefined (a read past the end of a typed array).
Undefined == -1
\* JavaScript's null, where the other values are tuples or byte arrays.
Null == <<>>

\* The four tools of the toolbar.
ToolType == {"PENCIL", "BRUSH", "ERASER", "BUCKET"}

\* A colour string "#rrggbb" is modelled by its six hexadecimal digits.
HexBlack == <<0, 0, 0, 0, 0, 0>>
HexWhite == <<15, 15, 15, 15, 15, 15>>
HexRed   == <<14, 15, 4, 4, 4, 4>>

\* The colour swatches offered by the picker (a subset of the twelve).
COLORS == {HexBlack}

\* parseInt(hex.substring(i, i + 2), 16) for the three channels; alpha is 255.
ParseHex(hex) ==
  <<16 * hex[1] + hex[2], 16 * hex[3] + hex[4], 16 * hex[5] + hex[6], 255>>

\* '#ffffff' as bytes: the background the canvas is filled with.
White == ParseHex(HexWhite)

(***************************************************************************)
(* ImageData: width, height and the flat RGBA byte array `data`,          *)
(* data[(y * width + x) * 4 + c], indexed from 0.                         *)
(***************************************************************************)

\* An ImageData of w x h pixels all of colour c (fillRect then getImageData).
Solid(w, h, c) ==
  [i \in 0 .. (4 * w * h - 1) |-> c[(i % 4) + 1]]

\* data[i] of a typed array: undefined outside the array.
At(data, i) == IF i \in DOMAIN data THEN data[i] ELSE Undefined

\* The colour of the pixel starting at byte pos.
PixelAt(data, pos) ==
  <<At(data, pos), At(data, pos + 1), At(data, pos + 2), At(data, pos + 3)>>

(***************************************************************************)
(* floodFill.ts                                                            *)
(***************************************************************************)

\* The squared-distance tolerance of matchColor.
Tolerance == 12000

\* Squared distance over the four channels between two colours.
SqDist(c, d) ==
  (c[1] - d[1]) * (c[1] - d[1]) + (c[2] - d[2]) * (c[2] - d[2])
    + (c[3] - d[3]) * (c[3] - d[3]) + (c[4] - d[4]) * (c[4] - d[4])

\* A colour read with a channel undefined: arithmetic on it gives NaN.
IsNaN(c) == \E i \in 1 .. 4 : c[i] = Undefined

\* matchColor with "<=" for "<".
matchColor_inclusive(data, pos, start) ==
  /\ ~IsNaN(PixelAt(data, pos))
  /\ ~IsNaN(start)
  /\ SqDist(PixelAt(data, pos), start) <= Tolerance

\* matchColor(pos): the pixel at pos is within tolerance of the start colour
\* (a comparison with NaN is false).
matchColor(data, pos, start) ==
  /\ ~IsNaN(PixelAt(data, pos))
  /\ ~IsNaN(start)
  /\ SqDist(PixelAt(data, pos), start) < Tolerance

\* colorPixel(pos): overwrite the four bytes at pos with the fill colour.
colorPixel(data, pos, fill) ==
  [i \in DOMAIN data |->
     IF i \in pos .. (pos + 3) THEN fill[i - pos + 1] ELSE data[i]]

\* Remove the k-th element of a sequence.
RemoveAt(s, k) == SubSeq(s, 1, k - 1) \o SubSeq(s, k + 1, Len(s))

\* fillInit without the early return on a seed of the fill colour.
fillInit_noEarlyReturn(data, startX, startY, hex, width, height) ==
  LET fill     == ParseHex(hex)
      startPos == (startY * width + startX) * 4
      start    == PixelAt(data, startPos)
  IN  [data   |-> data,
       seen   |-> [p \in 0 .. (width * height - 1) |-> 0],
       stack  |-> <<<<startX, startY>>>>,
       fill   |-> fill,
       start  |-> start,
       width  |-> width,
       height |-> height]

\* The state of a fill in progress: the byte array, the seen marks, the
\* pending coordinates, and the fixed inputs of the call.
\* fillInit is the state on entry to the while loop (or a finished state when
\* the start colour already equals the fill colour).
fillInit(data, startX, startY, hex, width, height) ==
  LET fill     == ParseHex(hex)
      startPos == (startY * width + startX) * 4
      start    == PixelAt(data, startPos)
  IN  [data   |-> data,
       seen   |-> [p \in 0 .. (width * height - 1) |-> 0],
       stack  |-> IF start = fill THEN <<>> ELSE <<<<startX, startY>>>>,
       fill   |-> fill,
       start  |-> start,
       width  |-> width,
       height |-> height]

\* fillStep with the bounds test made on the flat pixel index instead of on
\* the coordinates.
fillStep_checksIndex(f, k) ==
  LET x          == f.stack[k][1]
      y          == f.stack[k][2]
      pixelIndex == y * f.width + x
      pos        == pixelIndex * 4
      rest       == RemoveAt(f.stack, k)
  IN  IF pixelIndex < 0 \/ pixelIndex >= f.width * f.height
        THEN [f EXCEPT !.stack = rest]
      ELSE IF f.seen[pixelIndex] # 0
        THEN [f EXCEPT !.stack = rest]
      ELSE IF matchColor(f.data, pos, f.start)
        THEN [f EXCEPT !.data  = colorPixel(f.data, pos, f.fill),
                       !.seen  = [f.seen EXCEPT ![pixelIndex] = 1],
                       !.stack = rest \o <<<<x + 1, y>>, <<x - 1, y>>,
                                           <<x, y + 1>>, <<x, y - 1>>>>]
      ELSE [f EXCEPT !.stack = rest]

\* fillStep without the colour test: every unseen pixel reached is filled.
fillStep_ignoresMatch(f, k) ==
  LET x          == f.stack[k][1]
      y          == f.stack[k][2]
      pixelIndex == y * f.width + x
      pos        == pixelIndex * 4
      rest       == RemoveAt(f.stack, k)
  IN  IF x < 0 \/ x >= f.width \/ y < 0 \/ y >= f.height
        THEN [f EXCEPT !.stack = rest]
      ELSE IF f.seen[pixelIndex] # 0
        THEN [f EXCEPT !.stack = rest]
      ELSE [f EXCEPT !.data  = colorPixel(f.data, pos, f.fill),
                     !.seen  = [f.seen EXCEPT ![pixelIndex] = 1],
                     !.stack = rest \o <<<<x + 1, y>>, <<x - 1, y>>,
                                         <<x, y + 1>>, <<x, y - 1>>>>]

\* fillStep without the seen mark: a filled pixel can be taken again.
fillStep_neverMarks(f, k) ==
  LET x          == f.stack[k][1]
      y          == f.stack[k][2]
      pixelIndex == y * f.width + x
      pos        == pixelIndex * 4
      rest       == RemoveAt(f.stack, k)
  IN  IF x < 0 \/ x >= f.width \/ y < 0 \/ y >= f.height
        THEN [f EXCEPT !.stack = rest]
      ELSE IF f.seen[pixelIndex] # 0
        THEN [f EXCEPT !.stack = rest]
      ELSE IF matchColor(f.data, pos, f.start)
        THEN [f EXCEPT !.data  = colorPixel(f.data, pos, f.fill),
                       !.stack = rest \o <<<<x + 1, y>>, <<x - 1, y>>,
                                           <<x, y + 1>>, <<x, y - 1>>>>]
      ELSE [f EXCEPT !.stack = rest]

\* One iteration of the while loop, taking the k-th pending coordinate
\* (the code takes the last one pushed: k = Len(stack)).
fillStep(f, k) ==
  LET x          == f.stack[k][1]
      y          == f.stack[k][2]
      pixelIndex == y * f.width + x
      pos        == pixelIndex * 4
      rest       == RemoveAt(f.stack, k)
  IN  IF x < 0 \/ x >= f.width \/ y < 0 \/ y >= f.height
        THEN [f EXCEPT !.stack = rest]
      ELSE IF f.seen[pixelIndex] # 0
        THEN [f EXCEPT !.stack = rest]
      ELSE IF matchColor(f.data, pos, f.start)
        THEN [f EXCEPT !.data  = colorPixel(f.data, pos, f.fill),
                       !.seen  = [f.seen EXCEPT ![pixelIndex] = 1],
                       !.stack = rest \o <<<<x + 1, y>>, <<x - 1, y>>,
                                           <<x, y + 1>>, <<x, y - 1>>>>]
      ELSE [f EXCEPT !.stack = rest]

\* The while loop run to completion in the code's order (stack.pop()).
RECURSIVE fillLoop(_)
fillLoop(f) ==
  IF f.stack = <<>> THEN f ELSE fillLoop(fillStep(f, Len(f.stack)))

\* floodFill(ctx, startX, startY, fillColorHex, width, height): the bytes of
\* the canvas after the call.
floodFill(data, startX, startY, hex, width, height) ==
  fillLoop(fillInit(data, startX, startY, hex, width, height)).data

(***************************************************************************)
(* State                                                                   *)
(***************************************************************************)

VARIABLES
  \* App.tsx
  tool,             \* drawingState.tool
  color,            \* drawingState.color
  triggerClear,     \* counter bumped by handleClear
  triggerUndo,      \* counter bumped by handleUndo
  importedSvg,      \* the object URL of the converted image, or null
  isGenerating,     \* the busy flag of the import
  fileDialog,       \* the file chooser opened by handleUploadClick is open
  reads,            \* FileReader reads in flight (onloadend not yet fired)
  requests,         \* convertImageToColoringPage calls in flight
  \* Canvas.tsx
  mounted,          \* the initialise effect has run
  canvas,           \* the pixels of the canvas (ctx), as ImageData bytes
  history,          \* the history state: a sequence of ImageData objects
  isDrawing,        \* isDrawing.current
  lastPos,          \* lastPos.current
  prevTriggerUndo,  \* prevTriggerUndo.current
  effects,          \* the effects React still has to run after the last render
  savedImg,         \* the stored canvas image being loaded at start-up, or null
  importImgs,       \* the imported images being loaded (onload not yet fired)
  stored,           \* localStorage['little-picasso-canvas'], or null
  nextId,           \* the number of ImageData objects handed out so far
  \* floodFill.ts, run step by step
  fill,             \* the fill in progress, or null
  fillIn,           \* the inputs the fill was called with, or null
  fillLog           \* what the loop has done so far: iterations, pixels coloured

appVars    == <<tool, color, triggerClear, triggerUndo, importedSvg,
                isGenerating, fileDialog, reads, requests>>
canvasVars == <<mounted, canvas, history, isDrawing, lastPos, prevTriggerUndo,
                effects, savedImg, importImgs, stored, nextId>>
fillVars   == <<fill, fillIn, fillLog>>
vars       == <<appVars, canvasVars, fillVars>>

(***************************************************************************)
(* Bounds of the model                                                     *)
(***************************************************************************)

\* container.clientWidth x container.clientHeight when the canvas mounts.
ContainerSize == <<2, 1>>
CanvasWidth  == ContainerSize[1]
CanvasHeight == ContainerSize[2]

\* Spec: snapshots taken in a session, and the caps of the trigger counters
\* and of the number of imports.
MaxSnapshots == 3
MaxUndo      == 2
MaxClear     == 1
MaxImport    == 1

\* SpecLong (a long session): snapshots taken and undo requests.
LongSnapshots == 26
LongUndo      == 21
LongMix       == 0

\* FillSpec: the largest buffer filled (width, height, pixels).
MaxWidth  == 3
MaxHeight == 2
MaxPixels == 6

\* FillAnyOrderSpec: the largest buffer filled in every order (pixels).
AnyOrderPixels == 4

(***************************************************************************)
(* Canvas.tsx: drawing                                                     *)
(***************************************************************************)

Abs(n) == IF n < 0 THEN -n ELSE n
Max(a, b) == IF a >= b THEN a ELSE b
Min(a, b) == IF a <= b THEN a ELSE b

\* The pointer positions getCoordinates can return, in canvas pixels.
Positions == (0 .. (CanvasWidth - 1)) \X (0 .. (CanvasHeight - 1))

\* The pixels a one-pixel-wide round-capped line from a to b covers
\* (ctx.beginPath, moveTo, lineTo, stroke).
Segment(a, b) ==
  {p \in Positions :
     /\ p[1] \in Min(a[1], b[1]) .. Max(a[1], b[1])
     /\ p[2] \in Min(a[2], b[2]) .. Max(a[2], b[2])
     /\ 2 * Abs((p[1] - a[1]) * (b[2] - a[2]) - (p[2] - a[2]) * (b[1] - a[1]))
          <= Max(Abs(b[1] - a[1]), Abs(b[2] - a[2]))}

\* Overwrite the pixels of set ps with colour c.
Paint(data, ps, c) ==
  [i \in DOMAIN data |->
     IF <<(i \div 4) % CanvasWidth, (i \div 4) \div CanvasWidth>> \in ps
       THEN c[(i % 4) + 1] ELSE data[i]]

\* draw(start, end): stroke the segment with the eraser's white or the colour.
draw(data, start, end, t, hex) ==
  Paint(data, Segment(start, end), IF t = "ERASER" THEN White ELSE ParseHex(hex))

\* ctx.fillStyle = '#ffffff'; ctx.fillRect(0, 0, canvas.width, canvas.height).
fillRectWhite == Solid(CanvasWidth, CanvasHeight, White)

\* ctx.drawImage(img, ...): source-over compositing of an image whose pixels
\* are opaque (alpha 255) or fully transparent (alpha 0).
drawImage(data, img) ==
  [i \in DOMAIN data |->
     IF img[4 * (i \div 4) + 3] = 255 THEN img[i] ELSE data[i]]

\* canvas.toDataURL() and its decoding by an Image: a PNG of the pixels.
toDataURL(data) == <<"data:image/png", data>>
decode(url) == url[2]

\* ctx.getImageData(0, 0, canvas.width, canvas.height): a new ImageData
\* object (its identity is id) holding a copy of the pixels.
getImageData(data, id) == [id |-> id, data |-> data]

\* A canvas element before anything is drawn: transparent black.
Transparent == <<0, 0, 0, 0>>
BlankElement == Solid(CanvasWidth, CanvasHeight, Transparent)

\* The drawing a previous session left in localStorage: a black dot.
SavedDrawing == Paint(fillRectWhite, {<<0, 0>>}, ParseHex(HexBlack))

\* The converted colouring page, scaled to the canvas: a black outline on a
\* transparent background.
ColoringPage ==
  Paint(BlankElement, {<<CanvasWidth - 1, 0>>}, ParseHex(HexBlack))

(***************************************************************************)
(* Canvas.tsx: history                                                     *)
(***************************************************************************)

\* The capacity of the history (saveHistory's "> 20").
HistoryCap == 20

\* pushSnapshot with newHist.pop() for newHist.shift(): beyond 20 the newest
\* snapshot is dropped, not the oldest.
pushSnapshot_dropsNewest(prev, currentData) ==
  LET newHist == Append(prev, currentData)
  IN  IF Len(newHist) > HistoryCap THEN SubSeq(newHist, 1, HistoryCap) ELSE newHist

\* pushSnapshot with the capacity test off by one (">= 20").
pushSnapshot_capOffByOne(prev, currentData) ==
  LET newHist == Append(prev, currentData)
  IN  IF Len(newHist) >= HistoryCap THEN Tail(newHist) ELSE newHist

\* The updater of saveHistory: append, and drop the oldest beyond 20.
pushSnapshot(prev, currentData) ==
  LET newHist == Append(prev, currentData)
  IN  IF Len(newHist) > HistoryCap THEN Tail(newHist) ELSE newHist

\* saveHistory(): snapshot the canvas, push it, store the canvas; the history
\* changed, so React renders again and re-runs the undo effect (due: the
\* effects still waiting besides).
saveHistory(due) ==
  /\ history' = pushSnapshot(history, getImageData(canvas', nextId))
  /\ nextId' = nextId + 1
  /\ stored' = toDataURL(canvas')
  /\ effects' = due \cup {"undo"}

\* No effect is waiting: the next event can be handled.
Idle == mounted /\ effects = {}

\* Initialize canvas (the mount effect). The clear, undo and import effects
\* also run on mount and return at once (their triggers are 0 / null).
InitializeCanvas ==
  /\ ~mounted
  /\ mounted' = TRUE
  /\ canvas' = fillRectWhite
  /\ IF stored # Null
       THEN /\ savedImg' = decode(stored)
            /\ UNCHANGED <<history, nextId, effects>>
       ELSE /\ history' = <<getImageData(canvas', nextId)>>
            /\ nextId' = nextId + 1
            /\ effects' = {"undo"}
            /\ UNCHANGED savedImg
  /\ UNCHANGED <<isDrawing, lastPos, prevTriggerUndo, importImgs, stored>>
  /\ UNCHANGED <<appVars, fillVars>>

\* img.onload of the stored canvas image.
SavedImageOnload ==
  /\ mounted /\ savedImg # Null
  /\ canvas' = drawImage(canvas, savedImg)
  /\ history' = <<getImageData(canvas', nextId)>>
  /\ nextId' = nextId + 1
  /\ effects' = effects \cup {"undo"}
  /\ savedImg' = Null
  /\ UNCHANGED <<mounted, isDrawing, lastPos, prevTriggerUndo, importImgs, stored>>
  /\ UNCHANGED <<appVars, fillVars>>

\* startDrawing(e): mousedown (with its button) or touchstart at pos.
startDrawing(type, button, pos) ==
  /\ Idle
  /\ IF type = "mousedown" /\ button # 0
       THEN UNCHANGED canvasVars
     ELSE IF tool = "BUCKET"
       THEN /\ canvas' = floodFill(canvas, pos[1], pos[2], color,
                                   CanvasWidth, CanvasHeight)
            /\ saveHistory(effects)
            /\ UNCHANGED <<mounted, isDrawing, lastPos, prevTriggerUndo,
                           savedImg, importImgs>>
     ELSE /\ isDrawing' = TRUE
          /\ lastPos' = pos
          /\ canvas' = draw(canvas, pos, pos, tool, color)
          /\ UNCHANGED <<mounted, history, prevTriggerUndo, effects, savedImg,
                         importImgs, stored, nextId>>
  /\ UNCHANGED <<appVars, fillVars>>

\* handleMove(e): mousemove or touchmove at pos.
handleMove(pos) ==
  /\ Idle
  /\ IF ~isDrawing \/ lastPos = Null \/ tool = "BUCKET"
       THEN UNCHANGED canvasVars
       ELSE /\ canvas' = draw(canvas, lastPos, pos, tool, color)
            /\ lastPos' = pos
            /\ UNCHANGED <<mounted, history, isDrawing, prevTriggerUndo, effects,
                           savedImg, importImgs, stored, nextId>>
  /\ UNCHANGED <<appVars, fillVars>>

\* stopDrawing without the isDrawing test: every mouseup, mouseleave and
\* touchend takes a snapshot.
stopDrawing_unguarded ==
  /\ Idle
  /\ isDrawing' = FALSE
  /\ lastPos' = Null
  /\ canvas' = canvas
  /\ saveHistory(effects)
  /\ UNCHANGED <<mounted, prevTriggerUndo, savedImg, importImgs>>
  /\ UNCHANGED <<appVars, fillVars>>

\* stopDrawing(): mouseup, mouseleave or touchend.
stopDrawing ==
  /\ Idle
  /\ IF isDrawing
       THEN /\ isDrawing' = FALSE
            /\ lastPos' = Null
            /\ canvas' = canvas
            /\ saveHistory(effects)
            /\ UNCHANGED <<mounted, prevTriggerUndo, savedImg, importImgs>>
       ELSE UNCHANGED canvasVars
  /\ UNCHANGED <<appVars, fillVars>>

\* Handle Clear (the effect on triggerClear).
clearEffect ==
  /\ mounted /\ "clear" \in effects
  /\ IF triggerClear = 0
       THEN /\ effects' = effects \ {"clear"}
            /\ UNCHANGED <<canvas, history, stored, nextId>>
       ELSE /\ canvas' = fillRectWhite
            /\ saveHistory(effects \ {"clear"})
  /\ UNCHANGED <<mounted, isDrawing, lastPos, prevTriggerUndo, savedImg, importImgs>>
  /\ UNCHANGED <<appVars, fillVars>>

\* undoOutcome putting back the state it has just removed (the last element
\* read before the pop).
undoOutcome_restoresRemoved(h) ==
  IF Len(h) > 1
    THEN [applied  |-> TRUE,
          history  |-> SubSeq(h, 1, Len(h) - 1),
          previous |-> h[Len(h)].data]
    ELSE [applied |-> FALSE, history |-> h, previous |-> Null]

\* undoOutcome with "history.length > 0" and no test of previousState: the
\* only snapshot is removed too.
undoOutcome_removesOnly(h) ==
  IF Len(h) > 1
    THEN [applied  |-> TRUE,
          history  |-> SubSeq(h, 1, Len(h) - 1),
          previous |-> h[Len(h) - 1].data]
    ELSE IF Len(h) = 1
      THEN [applied |-> TRUE, history |-> <<>>, previous |-> h[1].data]
      ELSE [applied |-> FALSE, history |-> h, previous |-> Null]

\* undoOutcome with shift() for pop(): the oldest snapshot is removed.
undoOutcome_removesOldest(h) ==
  IF Len(h) > 1
    THEN [applied  |-> TRUE,
          history  |-> Tail(h),
          previous |-> h[Len(h)].data]
    ELSE [applied |-> FALSE, history |-> h, previous |-> Null]

\* The body of the undo effect under "history.length > 1": the copy of the
\* history without its last element and the state before it; applied tells
\* whether there was a state to put back.
undoOutcome(h) ==
  IF Len(h) > 1
    THEN LET newHistory == SubSeq(h, 1, Len(h) - 1)
         IN  IF newHistory # <<>>
               THEN [applied  |-> TRUE,
                     history  |-> newHistory,
                     previous |-> newHistory[Len(newHistory)].data]
               ELSE [applied |-> FALSE, history |-> h, previous |-> Null]
    ELSE [applied |-> FALSE, history |-> h, previous |-> Null]

\* undoEffect without the comparison with prevTriggerUndo.
undoEffect_noGuard ==
  /\ mounted /\ "undo" \in effects
  /\ IF triggerUndo = 0
       THEN /\ effects' = effects \ {"undo"}
            /\ UNCHANGED <<canvas, history, prevTriggerUndo, stored>>
       ELSE /\ prevTriggerUndo' = triggerUndo
            /\ LET out == undoOutcome(history)
               IN  IF out.applied
                     THEN /\ canvas' = out.previous
                          /\ history' = out.history
                          /\ stored' = toDataURL(canvas')
                          /\ effects' = effects
                     ELSE /\ effects' = effects \ {"undo"}
                          /\ UNCHANGED <<canvas, history, stored>>
  /\ UNCHANGED <<mounted, isDrawing, lastPos, savedImg, importImgs, nextId>>
  /\ UNCHANGED <<appVars, fillVars>>

\* Handle Undo (the effect on triggerUndo and history).
undoEffect ==
  /\ mounted /\ "undo" \in effects
  /\ IF triggerUndo = 0 \/ triggerUndo = prevTriggerUndo
       THEN /\ effects' = effects \ {"undo"}
            /\ UNCHANGED <<canvas, history, prevTriggerUndo, stored>>
       ELSE /\ prevTriggerUndo' = triggerUndo
            /\ LET out == undoOutcome(history)
               IN  IF out.applied
                     THEN /\ canvas' = out.previous
                          /\ history' = out.history
                          /\ stored' = toDataURL(canvas')
                          /\ effects' = effects
                     ELSE /\ effects' = effects \ {"undo"}
                          /\ UNCHANGED <<canvas, history, stored>>
  /\ UNCHANGED <<mounted, isDrawing, lastPos, savedImg, importImgs, nextId>>
  /\ UNCHANGED <<appVars, fillVars>>

\* importEffect with the canvas cleared when the load starts instead of in
\* img.onload.
importEffect_clearsFirst ==
  /\ mounted /\ "import" \in effects
  /\ effects' = effects \ {"import"}
  /\ IF importedSvg = Null
       THEN UNCHANGED <<importImgs, canvas>>
       ELSE /\ importImgs' = importImgs \cup {importedSvg}
            /\ canvas' = fillRectWhite
  /\ UNCHANGED <<mounted, history, isDrawing, lastPos, prevTriggerUndo,
                 savedImg, stored, nextId>>
  /\ UNCHANGED <<appVars, fillVars>>

\* Handle Imported Image (the effect on importedImageSrc): start loading it.
importEffect ==
  /\ mounted /\ "import" \in effects
  /\ effects' = effects \ {"import"}
  /\ IF importedSvg = Null
       THEN UNCHANGED importImgs
       ELSE importImgs' = importImgs \cup {importedSvg}
  /\ UNCHANGED <<mounted, canvas, history, isDrawing, lastPos, prevTriggerUndo,
                 savedImg, stored, nextId>>
  /\ UNCHANGED <<appVars, fillVars>>

\* img.onload of an imported image: clear, draw it scaled to fit, snapshot.
importOnload(img) ==
  /\ mounted /\ img \in importImgs
  /\ importImgs' = importImgs \ {img}
  /\ canvas' = drawImage(fillRectWhite, img[2])
  /\ saveHistory(effects)
  /\ UNCHANGED <<mounted, isDrawing, lastPos, prevTriggerUndo, savedImg>>
  /\ UNCHANGED <<appVars, fillVars>>

\* The imported image fails to load (no onerror handler): nothing happens.
importOnerror(img) ==
  /\ mounted /\ img \in importImgs
  /\ importImgs' = importImgs \ {img}
  /\ UNCHANGED <<mounted, canvas, history, isDrawing, lastPos, prevTriggerUndo,
                 effects, savedImg, stored, nextId>>
  /\ UNCHANGED <<appVars, fillVars>>

(***************************************************************************)
(* App.tsx                                                                 *)
(***************************************************************************)

\* URL.createObjectURL(svgBlob): a new URL each time (its serial number),
\* paired here with the bitmap the SVG renders to.
urlCount == IF importedSvg = Null THEN 0 ELSE importedSvg[1]
createObjectURL(bitmap) == <<urlCount + 1, bitmap>>

\* handleToolChange(tool), from a toolbar button.
handleToolChange(t) ==
  /\ Idle
  /\ tool' = t
  /\ UNCHANGED <<color, triggerClear, triggerUndo, importedSvg, isGenerating,
                 fileDialog, reads, requests>>
  /\ UNCHANGED <<canvasVars, fillVars>>

\* handleColorChange(color), from a swatch of the picker.
handleColorChange(c) ==
  /\ Idle
  /\ color' = c
  /\ UNCHANGED <<tool, triggerClear, triggerUndo, importedSvg, isGenerating,
                 fileDialog, reads, requests>>
  /\ UNCHANGED <<canvasVars, fillVars>>

\* handleClear(): bump triggerClear when the user confirms.
handleClear(confirmed) ==
  /\ Idle
  /\ IF confirmed
       THEN /\ triggerClear' = triggerClear + 1
            /\ effects' = effects \cup {"clear"}
       ELSE UNCHANGED <<triggerClear, effects>>
  /\ UNCHANGED <<tool, color, triggerUndo, importedSvg, isGenerating,
                 fileDialog, reads, requests>>
  /\ UNCHANGED <<mounted, canvas, history, isDrawing, lastPos, prevTriggerUndo,
                 savedImg, importImgs, stored, nextId>>
  /\ UNCHANGED fillVars

\* handleUndo(): bump triggerUndo.
handleUndo ==
  /\ Idle
  /\ triggerUndo' = triggerUndo + 1
  /\ effects' = effects \cup {"undo"}
  /\ UNCHANGED <<tool, color, triggerClear, importedSvg, isGenerating,
                 fileDialog, reads, requests>>
  /\ UNCHANGED <<mounted, canvas, history, isDrawing, lastPos, prevTriggerUndo,
                 savedImg, importImgs, stored, nextId>>
  /\ UNCHANGED fillVars

\* handleUploadClick with the upload button left enabled while generating.
handleUploadClick_notDisabled ==
  /\ Idle
  /\ ~fileDialog
  /\ fileDialog' = TRUE
  /\ UNCHANGED <<tool, color, triggerClear, triggerUndo, importedSvg,
                 isGenerating, reads, requests>>
  /\ UNCHANGED <<canvasVars, fillVars>>


\* handleUploadClick(): the upload button (disabled while isGenerating)
\* opens the file chooser.
handleUploadClick ==
  /\ Idle
  /\ ~isGenerating
  /\ ~fileDialog
  /\ fileDialog' = TRUE
  /\ UNCHANGED <<tool, color, triggerClear, triggerUndo, importedSvg,
                 isGenerating, reads, requests>>
  /\ UNCHANGED <<canvasVars, fillVars>>

\* handleFileChange(event), up to reader.readAsDataURL(file).
handleFileChange(file) ==
  /\ Idle
  /\ fileDialog
  /\ fileDialog' = FALSE
  /\ IF file = Null
       THEN UNCHANGED <<isGenerating, reads>>
       ELSE /\ isGenerating' = TRUE
            /\ reads' = reads + 1
  /\ UNCHANGED <<tool, color, triggerClear, triggerUndo, importedSvg, requests>>
  /\ UNCHANGED <<canvasVars, fillVars>>

\* reader.onloadend, up to the call of convertImageToColoringPage: a failed
\* read leaves reader.result null, and null.split throws out of the handler.
onloadend(result) ==
  /\ Idle
  /\ reads > 0
  /\ reads' = reads - 1
  /\ IF result = Null
       THEN UNCHANGED requests
       ELSE requests' = requests + 1
  /\ UNCHANGED <<tool, color, triggerClear, triggerUndo, importedSvg,
                 isGenerating, fileDialog>>
  /\ UNCHANGED <<canvasVars, fillVars>>

\* The rest of reader.onloadend, once convertImageToColoringPage settles:
\* with the SVG text (svg = TRUE) or by throwing.
conversionSettled(svg) ==
  /\ Idle
  /\ requests > 0
  /\ requests' = requests - 1
  /\ IF svg
       THEN /\ importedSvg' = createObjectURL(ColoringPage)
            /\ effects' = effects \cup {"import"}
       ELSE UNCHANGED <<importedSvg, effects>>
  /\ isGenerating' = FALSE
  /\ UNCHANGED <<tool, color, triggerClear, triggerUndo, fileDialog, reads>>
  /\ UNCHANGED <<mounted, canvas, history, isDrawing, lastPos, prevTriggerUndo,
                 savedImg, importImgs, stored, nextId>>
  /\ UNCHANGED fillVars

(***************************************************************************)
(* The drawing surface: Spec                                               *)
(***************************************************************************)

\* The tools the user picks (BRUSH draws exactly as PENCIL does).
Tools == ToolType \ {"BRUSH"}

\* useState of App apart from drawingState.
InitTriggers ==
  /\ triggerClear = 0
  /\ triggerUndo = 0
  /\ importedSvg = Null
  /\ isGenerating = FALSE
  /\ fileDialog = FALSE
  /\ reads = 0
  /\ requests = 0

\* drawingState is the default (black pencil) or what a previous session left
\* in localStorage.
InitApp ==
  /\ tool \in Tools
  /\ color \in COLORS
  /\ InitTriggers

InitCanvas ==
  /\ mounted = FALSE
  /\ canvas = BlankElement
  /\ history = <<>>
  /\ isDrawing = FALSE
  /\ lastPos = Null
  /\ prevTriggerUndo = 0
  /\ effects = {}
  /\ savedImg = Null
  /\ importImgs = {}
  /\ nextId = 0

InitFillIdle ==
  /\ fill = Null
  /\ fillIn = Null
  /\ fillLog = Null

\* The component as constructed; localStorage may hold a previous drawing.
Init ==
  /\ InitApp
  /\ InitCanvas
  /\ stored \in {Null, toDataURL(SavedDrawing)}
  /\ InitFillIdle

\* The effects React runs after a render.
Effects ==
  \/ clearEffect
  \/ undoEffect
  \/ importEffect

\* The user can act on the page: no effect is waiting and the (modal) file
\* chooser is closed.
Ready == Idle /\ ~fileDialog

\* The "Making Magic..." overlay covers the canvas while isGenerating, so no
\* stroke or bucket click starts then.
CanvasReachable == Ready /\ ~isGenerating

\* The import pipeline.
Import ==
  \/ (Ready /\ nextId < MaxSnapshots /\ urlCount < MaxImport
        /\ handleUploadClick)
  \/ \E file \in {Null, <<"file">>} : handleFileChange(file)
  \/ \E result \in {Null, <<"data:image/jpeg">>} : onloadend(result)
  \/ \E svg \in BOOLEAN : conversionSettled(svg)
  \/ \E img \in importImgs : importOnload(img)
  \/ \E img \in importImgs : importOnerror(img)

\* The pointer events of the canvas.
Pointer ==
  \/ (CanvasReachable /\ nextId < MaxSnapshots
        /\ \E type \in {"mousedown", "touchstart"}, button \in {0, 2},
              pos \in Positions : startDrawing(type, button, pos))
  \/ (Ready /\ \E pos \in Positions : handleMove(pos))
  \/ (Ready /\ stopDrawing)

\* The toolbar and the colour picker.
Toolbar ==
  \/ (Ready /\ \E t \in Tools : handleToolChange(t))
  \/ (Ready /\ \E c \in COLORS : handleColorChange(c))
  \/ (Ready /\ triggerClear < MaxClear /\ nextId < MaxSnapshots
        /\ \E confirmed \in BOOLEAN : handleClear(confirmed))
  \/ (Ready /\ triggerUndo < MaxUndo /\ handleUndo)

Next ==
  \/ InitializeCanvas
  \/ SavedImageOnload
  \/ Effects
  \/ Pointer
  \/ Toolbar
  \/ Import

Spec == Init /\ [][Next]_vars

\* The same with the completions the platform guarantees: React runs the
\* pending effects, a FileReader always fires loadend, with or without a
\* result, and the conversion request always settles, by returning or by
\* throwing.
ReadEnds == \E result \in {Null, <<"data:image/jpeg">>} : onloadend(result)

ConversionSettles == \E svg \in BOOLEAN : conversionSettled(svg)

SpecFair ==
  /\ Spec
  /\ WF_vars(Effects)
  /\ WF_vars(ReadEnds)
  /\ WF_vars(ConversionSettles)

(***************************************************************************)
(* A long session: SpecLong                                                *)
(***************************************************************************)

\* The canvas starts blank (nothing stored); the user draws pencil strokes,
\* many more than the history holds, and asks for undo again and again.
InitLong ==
  /\ InitApp
  /\ InitCanvas
  /\ stored = Null
  /\ InitFillIdle

\* Strokes go on until LongSnapshots snapshots are taken, and no new stroke
\* starts after LongMix undo requests.
NextLong ==
  \/ InitializeCanvas
  \/ undoEffect
  \/ (Ready /\ nextId < LongSnapshots /\ triggerUndo <= LongMix
        /\ \E pos \in Positions : startDrawing("mousedown", 0, pos))
  \/ (Ready /\ \E pos \in Positions : handleMove(pos))
  \/ (Ready /\ stopDrawing)
  \/ (Ready /\ triggerUndo < LongUndo /\ handleUndo)

SpecLong == InitLong /\ [][NextLong]_vars

(***************************************************************************)
(* A scripted session: SpecScript                                          *)
(***************************************************************************)

\* The user draws stroke after stroke on a blank canvas and only then, with
\* no stroke in progress, asks for undo again and again.
NextScript ==
  \/ InitializeCanvas
  \/ undoEffect
  \/ (Ready /\ nextId < LongSnapshots /\ triggerUndo = 0
        /\ \E pos \in Positions : startDrawing("touchstart", 0, pos))
  \/ (Ready /\ \E pos \in Positions : handleMove(pos))
  \/ (Ready /\ stopDrawing)
  \/ (Ready /\ ~isDrawing /\ triggerUndo < LongUndo /\ handleUndo)

SpecScript == InitLong /\ [][NextScript]_vars

(***************************************************************************)
(* The flood fill step by step: FillSpec, FillAnyOrderSpec                 *)
(***************************************************************************)

\* Pixel colours of the buffers filled: white, black, and a light grey
\* within tolerance of white.
Black     == ParseHex(HexBlack)
LightGrey == <<200, 200, 200, 255>>
FillColours == {White, Black, LightGrey}

\* The fill colours asked for.
FillTargets == {HexRed, HexWhite}

\* The ImageData bytes of a w x h buffer whose pixel p has colour px[p].
Bytes(px) == [i \in 0 .. (4 * Len(px) - 1) |-> px[(i \div 4) + 1][(i % 4) + 1]]

\* Sequences of n colours of the set C.
RECURSIVE PixelsOver(_, _)
PixelsOver(n, C) ==
  IF n = 0 THEN {<<>>}
  ELSE {Append(px, c) : px \in PixelsOver(n - 1, C), c \in C}

\* Sequences of n colours.
Pixels(n) == PixelsOver(n, FillColours)

\* The buffer sizes filled.
Sizes ==
  {wh \in (1 .. MaxWidth) \X (1 .. MaxHeight) : wh[1] * wh[2] <= MaxPixels}

\* A call floodFill(ctx, x, y, hex, w, h) on any buffer of at most n pixels
\* of the given colours, with the seed in the buffer or one step outside it
\* and hex one of targets.
InitFillOver(n, colours, targets) ==
  /\ InitTriggers
  /\ InitCanvas
  /\ stored = Null
  /\ \E wh \in {s \in Sizes : s[1] * s[2] <= n} :
       \E px \in PixelsOver(wh[1] * wh[2], colours),
          x \in -1 .. wh[1], y \in -1 .. wh[2], hex \in targets :
            /\ fillIn = [data |-> Bytes(px), x |-> x, y |-> y, hex |-> hex,
                         width |-> wh[1], height |-> wh[2]]
            /\ fill = fillInit(Bytes(px), x, y, hex, wh[1], wh[2])
            /\ tool = "BUCKET"
            /\ color = hex
            /\ fillLog = [iterations |-> 0,
                          coloured   |-> [p \in 0 .. (wh[1] * wh[2] - 1) |-> 0]]

\* The same over the colours of FillColours.
InitFillUpTo(n, targets) == InitFillOver(n, FillColours, targets)

\* One iteration of the while loop on the k-th pending coordinate. The log
\* counts the iteration and, when the stack grew (the pixel was coloured and
\* its neighbours pushed), the pixel.
FillIteration(k) ==
  /\ fill.stack # <<>>
  /\ fill' = fillStep(fill, k)
  /\ fillLog' =
       [iterations |-> fillLog.iterations + 1,
        coloured   |->
          IF Len(fill'.stack) > Len(fill.stack)
            THEN [fillLog.coloured EXCEPT
                    ![fill.stack[k][2] * fill.width + fill.stack[k][1]] = @ + 1]
            ELSE fillLog.coloured]
  /\ UNCHANGED fillIn
  /\ UNCHANGED <<appVars, canvasVars>>

\* The loop as written: stack.pop() takes the last coordinate pushed.
NextFill == FillIteration(Len(fill.stack))

InitFill == InitFillUpTo(MaxPixels, FillTargets)

FillSpec == InitFill /\ [][NextFill]_vars

\* The loop taking the pending coordinates in any order.
NextFillAnyOrder == \E k \in 1 .. Len(fill.stack) : FillIteration(k)

InitFillAnyOrder == InitFillUpTo(AnyOrderPixels, {HexRed})

FillAnyOrderSpec == InitFillAnyOrder /\ [][NextFillAnyOrder]_vars

\* Colours at the edge of the tolerance: JustInside is at squared distance
\* 11999 from white (109, 9, 6 and 1 in the four channels), OnThreshold at
\* exactly 12000 (100, 40, 20 and 0).
JustInside  == <<146, 246, 249, 254>>
OnThreshold == <<155, 215, 235, 255>>
ThresholdColours == {White, JustInside, OnThreshold}

\* The fill, in the code's order, of buffers of those colours.
InitFillThreshold == InitFillOver(MaxPixels, ThresholdColours, {HexRed})

FillThresholdSpec == InitFillThreshold /\ [][NextFill]_vars

(***************************************************************************)
(* Properties of the history                                               *)
(***************************************************************************)

Last(h) == h[Len(h)]

\* The snapshot taken at mount of a canvas that starts blank.
InitialSnapshot == getImageData(fillRectWhite, 0)

\* A step that takes a snapshot of the canvas and pushes it (every snapshot
\* but the ones of the mount effect and of the start-up image load).
Pushes == mounted /\ nextId' = nextId + 1 /\ savedImg' = savedImg

\* A step of the undo effect that handles a new undo request.
UndoHandled == prevTriggerUndo' # prevTriggerUndo

\* The step pushes exactly one snapshot, of the canvas as the step leaves it.
OnePush ==
  /\ nextId' = nextId + 1
  /\ Len(history') = Min(Len(history) + 1, HistoryCap)
  /\ Last(history') = getImageData(canvas', nextId)
  /\ \A i \in 1 .. (Len(history') - 1) :
       history'[i] = history[i + Len(history) + 1 - Len(history')]

\* The step takes no snapshot and leaves the history alone.
NoPush == nextId' = nextId /\ history' = history

\* C1: the history never holds more than 20 snapshots, and a push onto a
\* full history (20) drops the oldest snapshot and nothing else: the other
\* 19 keep their order and the new snapshot is appended.
C1_HistoryBounded ==
  /\ [](Len(history) <= HistoryCap)
  /\ [][(Pushes /\ Len(history) = HistoryCap) =>
          history' = Tail(history) \o <<getImageData(canvas', nextId)>>]_vars

\* C1 witness: a full history whose oldest snapshot is no longer the first
\* one taken (an eviction has happened) and that ends with the newest.
C1_Witness ==
  /\ Len(history) = HistoryCap
  /\ history[1].id = 3
  /\ Last(history).id = nextId - 1

\* C2: an undo request handled with n >= 2 snapshots removes exactly the
\* last one (the first n-1 stay, in order) and makes the canvas byte-equal
\* to the new last snapshot.
C2_UndoRestoresPrevious ==
  [][(UndoHandled /\ Len(history) >= 2) =>
       /\ history' = SubSeq(history, 1, Len(history) - 1)
       /\ canvas' = history[Len(history) - 1].data
       /\ canvas' = Last(history').data]_vars

\* C2 witness: after a handled request the history lacks its newest
\* snapshot and the canvas shows the last one left, which is not what the
\* canvas showed first.
C2_Witness ==
  /\ prevTriggerUndo = 1
  /\ Len(history) = 2
  /\ Last(history).id = nextId - 2
  /\ canvas = Last(history).data
  /\ canvas # history[1].data

\* C3: an undo request handled with exactly one snapshot changes neither the
\* canvas nor the history.
C3_UndoAtOneIsNoOp ==
  [][(UndoHandled /\ Len(history) = 1) =>
       (canvas' = canvas /\ history' = history)]_vars

\* C3 witness: a request was handled while the initial snapshot was the only
\* one ever taken, in the middle of a stroke.
C3_Witness ==
  /\ triggerUndo = 1 /\ prevTriggerUndo = 1
  /\ nextId = 1
  /\ history = <<InitialSnapshot>>
  /\ isDrawing
  /\ canvas # fillRectWhite

\* C4 (as claimed): whenever a gesture, clear, import or undo can be handled
\* the history holds at least one snapshot.
C4_HistoryNeverEmpty == Ready => Len(history) >= 1

\* C5 (as claimed): index 0 of the history is always the initial snapshot.
C5_IndexZeroIsInitial == (history # <<>>) => history[1] = InitialSnapshot

\* C5 (amended): on a canvas that starts blank the history begins with the
\* initial snapshot, undo never removes or changes index 0, and index 0
\* changes only when a push finds the history full and evicts it, the second
\* oldest snapshot taking its place.
C5_IndexZeroUntilEviction ==
  [][/\ (history = <<>> /\ history' # <<>>) => history' = <<InitialSnapshot>>
     /\ (history # <<>>) =>
          /\ history' # <<>>
          /\ \/ history'[1] = history[1]
             \/ (Pushes /\ Len(history) = HistoryCap /\ history'[1] = history[2])
     /\ (nextId' <= HistoryCap /\ history' # <<>>) => history'[1] = InitialSnapshot
    ]_vars

\* C5 witness: every undo has been used up, and the one snapshot left (which
\* the canvas shows) is not the initial one.
C5_Witness ==
  /\ Len(history) = 1
  /\ history[1] # InitialSnapshot
  /\ history[1].data # fillRectWhite
  /\ canvas = history[1].data
  /\ prevTriggerUndo >= HistoryCap - 1

\* C6: after 25 pushes onto the initial snapshot (26 snapshots taken, ids
\* 0..25) the history holds the 20 newest, so that the initial one and the
\* first five pushed are gone; j undo requests then surface min(j, 19)
\* earlier states, the canvas showing the last one left, and from the 20th
\* on undo changes nothing.
C6_TwentyFivePushes ==
  (nextId = 26 /\ effects = {}) =>
     /\ Len(history) = HistoryCap - Min(prevTriggerUndo, HistoryCap - 1)
     /\ \A i \in 1 .. Len(history) : history[i].id = i + 5
     /\ (~isDrawing => canvas = Last(history).data)

\* C6 witness: 25 pushes, then 20 undo requests: one snapshot is left, the
\* sixth pushed.
C6_Witness ==
  /\ nextId = 26
  /\ prevTriggerUndo = 20
  /\ effects = {}
  /\ Len(history) = 1
  /\ history[1].id = 6

\* The first draw's push and the second's are in the history, on top of the
\* initial snapshot.
TwoDraws == Len(history) = 3 /\ nextId = 3

\* C7 (as claimed): from the history of two draws, the second of two undos
\* leaves the canvas equal to the snapshot pushed after the first draw.
C7_TwoUndosGiveFirstDraw ==
  [][(UndoHandled /\ nextId = 3 /\ Len(history) = 2 /\ triggerUndo = 2
        /\ history[2].id = 1)
       => canvas' = history[2].data]_vars

\* C7 (amended): from the history of two draws, the first undo leaves the
\* canvas equal to the snapshot pushed after the first draw, and the second
\* undo leaves it equal to the initial snapshot, the only one left.
C7_TwoUndosGiveInitial ==
  [][/\ (UndoHandled /\ TwoDraws /\ triggerUndo = 1) =>
          (canvas' = history[2].data /\ history' = <<history[1], history[2]>>)
     /\ (UndoHandled /\ nextId = 3 /\ Len(history) = 2 /\ triggerUndo = 2
           /\ history[2].id = 1) =>
          (canvas' = history[1].data /\ history' = <<history[1]>>)
    ]_vars

\* C7 witness: two draws and two undos later the history is the initial
\* snapshot alone and the canvas is blank again.
C7_Witness ==
  /\ nextId = 3
  /\ prevTriggerUndo = 2
  /\ history = <<InitialSnapshot>>
  /\ canvas = fillRectWhite
  /\ stored = toDataURL(fillRectWhite)

\* C8: a pointer move and a pointer down with a drawing tool push nothing;
\* the end of a stroke, a bucket click, a clear and a loaded import push
\* exactly one snapshot; an up/leave/touch-end with no stroke in progress
\* (such as the mouseleave after a mouseup) pushes nothing; and nothing else
\* pushes.
C8_OnePushPerGesture ==
  [][/\ (\E pos \in Positions : handleMove(pos)) => NoPush
     /\ (tool # "BUCKET" /\ \E type \in {"mousedown", "touchstart"},
           button \in {0, 2}, pos \in Positions :
             startDrawing(type, button, pos)) => NoPush
     /\ (tool = "BUCKET" /\ \E type \in {"mousedown", "touchstart"},
           pos \in Positions : startDrawing(type, 0, pos)) => OnePush
     /\ (isDrawing /\ stopDrawing) => OnePush
     /\ (~isDrawing /\ stopDrawing) => NoPush
     /\ (triggerClear # 0 /\ clearEffect) => OnePush
     /\ (\E img \in importImgs : importOnload(img)) => OnePush
     /\ Pushes =>
          \/ (isDrawing /\ ~isDrawing')
          \/ (tool = "BUCKET" /\ Ready)
          \/ ("clear" \in effects /\ "clear" \notin effects')
          \/ importImgs' # importImgs
    ]_vars

\* C8 witness: a stroke that went down, moved across the canvas and ended
\* has left exactly one snapshot after the initial one.
C8_Witness ==
  /\ tool = "PENCIL"
  /\ ~isDrawing
  /\ nextId = 2
  /\ Len(history) = 2
  /\ history[1] = InitialSnapshot
  /\ history[2].data = Solid(CanvasWidth, CanvasHeight, ParseHex(HexBlack))
  /\ triggerUndo = 0 /\ triggerClear = 0

(***************************************************************************)
(* Properties of the flood fill                                            *)
(***************************************************************************)

\* The pixel indices of the buffer being filled.
FillPixels == 0 .. (fillIn.width * fillIn.height - 1)

\* The seed of the call lies in the buffer.
SeedInBounds ==
  /\ fillIn.x >= 0 /\ fillIn.x < fillIn.width
  /\ fillIn.y >= 0 /\ fillIn.y < fillIn.height

\* The colour of pixel p before the call, and now.
Before(p) == PixelAt(fillIn.data, 4 * p)
Now(p)    == PixelAt(fill.data, 4 * p)

\* The colour of the seed pixel before the call, and the colour asked for.
SeedColour   == Before(fillIn.y * fillIn.width + fillIn.x)
TargetColour == ParseHex(fillIn.hex)

\* Pixels p and q share an edge.
Adjacent(p, q) ==
  LET w == fillIn.width
  IN  \/ p \div w = q \div w /\ Abs(p - q) = 1
      \/ p % w = q % w /\ Abs(p - q) = w

\* Pixel p was, before the call, closer than the tolerance to the seed colour.
Similar(p) == SqDist(Before(p), SeedColour) < Tolerance

\* The pixels joined to those of S by edges between similar pixels.
RECURSIVE Closure(_)
Closure(S) ==
  LET more == {q \in FillPixels \ S :
                 Similar(q) /\ \E p \in S : Adjacent(p, q)}
  IN  IF more = {} THEN S ELSE Closure(S \cup more)

\* The 4-connected region of the seed.
Region == Closure({fillIn.y * fillIn.width + fillIn.x})

\* The pixels the loop has overwritten, and how many writes it made.
Overwritten == {p \in FillPixels : fillLog.coloured[p] > 0}

RECURSIVE SumOver(_, _)
SumOver(f, S) ==
  IF S = {} THEN 0
  ELSE LET p == CHOOSE q \in S : TRUE IN f[p] + SumOver(f, S \ {p})

Writes == SumOver(fillLog.coloured, FillPixels)

\* The loop has ended.
FillDone == fill.stack = <<>>

\* C9: for an in-bounds seed whose colour differs from the target, in whatever
\* order the pending coordinates are taken, the loop only ever overwrites
\* pixels of the seed's 4-connected region of similar pixels (squared
\* distance to the seed's original colour < 12000); every overwritten pixel
\* holds the target colour (r, g, b, 255) and every other pixel its original
\* bytes; and when the loop ends the overwritten pixels are exactly the region.
C9_FillsExactlyTheRegion ==
  (SeedInBounds /\ SeedColour # TargetColour) =>
    /\ Overwritten \subseteq Region
    /\ \A p \in FillPixels :
         Now(p) = IF p \in Overwritten THEN TargetColour ELSE Before(p)
    /\ DOMAIN fill.data = DOMAIN fillIn.data
    /\ FillDone => Overwritten = Region

\* A finished fill of a 2 x 2 buffer whose region is the seed and one
\* neighbour of a similar but different colour, and whose other two pixels
\* are black boundary, unchanged.
C9_Witness ==
  /\ FillDone
  /\ fillIn.width = 2 /\ fillIn.height = 2
  /\ SeedInBounds /\ SeedColour # TargetColour
  /\ Cardinality(Region) = 2
  /\ \E p \in Region : Before(p) # SeedColour
  /\ Overwritten = Region
  /\ \A p \in FillPixels \ Region : Before(p) = Black /\ Now(p) = Black
  /\ fillLog.iterations = 9

\* C10: for an in-bounds seed the loop ends, within 1 + 4 * W * H iterations
\* (the seed, and four pushes per pixel marked; none when the seed already
\* has the target colour); each pixel is marked visited and overwritten at
\* most once, so there are at most W * H such visits.
C10_TerminatesBoundedVisits ==
  SeedInBounds =>
    /\ \A p \in FillPixels : fillLog.coloured[p] <= 1
    /\ \A p \in FillPixels : fillLog.coloured[p] = fill.seen[p]
    /\ Writes <= fillIn.width * fillIn.height
    /\ fillLog.iterations + Len(fill.stack) =
         (IF SeedColour = TargetColour THEN 0 ELSE 1) + 4 * Writes
    /\ fillLog.iterations <= 1 + 4 * fillIn.width * fillIn.height

\* A finished fill that overwrote every pixel of the largest buffer, each
\* once, with a colour the start colour still matches.
C10_Witness ==
  /\ FillDone
  /\ SeedInBounds
  /\ fillIn.width * fillIn.height = MaxPixels
  /\ Writes = MaxPixels
  /\ fillLog.iterations = 1 + 4 * MaxPixels
  /\ SqDist(TargetColour, SeedColour) < Tolerance

\* The call as a whole: the bytes floodFill leaves in the buffer.
FillResult ==
  floodFill(fillIn.data, fillIn.x, fillIn.y, fillIn.hex,
            fillIn.width, fillIn.height)

\* C11: when the in-bounds seed already has the target colour in all four
\* channels (alpha 255), the call returns before the loop: no iteration runs,
\* nothing is pending, and every byte of the buffer is as before, also where
\* neighbours of the seed are within the tolerance of it.
C11_SameColourIsNoOp ==
  (SeedInBounds /\ SeedColour = TargetColour) =>
    /\ FillDone
    /\ fillLog.iterations = 0
    /\ fill.data = fillIn.data
    /\ FillResult = fillIn.data

\* A white seed filled with white in the largest buffer, with a light grey
\* pixel (within tolerance of white) next to the seed.
C11_Witness ==
  /\ SeedInBounds
  /\ SeedColour = TargetColour
  /\ fillIn.width * fillIn.height = MaxPixels
  /\ \E p \in FillPixels :
       /\ Adjacent(p, fillIn.y * fillIn.width + fillIn.x)
       /\ Before(p) = LightGrey
  /\ fill.data = fillIn.data
  /\ FillDone

\* C12: with the seed outside [0, W) x [0, H) no byte of the buffer changes:
\* the start colour read is undefined or that of the pixel the flat index
\* wraps to, no read or write goes through the seen grid or the buffer at the
\* seed, and the loop ends after at most one iteration that discards the seed.
C12_OutOfBoundsSeedIsNoOp ==
  (~SeedInBounds) =>
    /\ fill.data = fillIn.data
    /\ fill.seen = [p \in FillPixels |-> 0]
    /\ Writes = 0
    /\ fillLog.iterations <= 1
    /\ fillLog.iterations = 1 => FillDone
    /\ FillResult = fillIn.data

\* An x one past the right edge with y in range: the flat index wraps to the
\* first pixel of the next row, whose colour is read as the start colour and
\* differs from the target; the one iteration has discarded the seed.
C12_Witness ==
  /\ fillIn.x = fillIn.width
  /\ fillIn.y = 0
  /\ fillIn.height = 2
  /\ ~IsNaN(fill.start)
  /\ fill.start = Before(fillIn.width)
  /\ fill.start # TargetColour
  /\ fillLog.iterations = 1
  /\ FillDone
  /\ fill.data = fillIn.data

\* The squared distance of pixel p's original colour from the seed's.
SeedDistance(p) == SqDist(Before(p), SeedColour)

\* The pixels joined to those of S by edges between pixels at squared
\* distance at most 11999 from the seed colour.
RECURSIVE ClosureBelow12000(_)
ClosureBelow12000(S) ==
  LET more == {q \in FillPixels \ S :
                 SeedDistance(q) <= 11999 /\ \E p \in S : Adjacent(p, q)}
  IN  IF more = {} THEN S ELSE ClosureBelow12000(S \cup more)

RegionBelow12000 == ClosureBelow12000({fillIn.y * fillIn.width + fillIn.x})

\* C13: the match is strict at the threshold. A pixel is only ever
\* overwritten if its squared four-channel distance from the seed's original
\* colour is at most 11999; a pixel at 12000 or more is never overwritten or
\* marked, and nothing is reached through it: the overwritten pixels stay
\* inside, and at the end are exactly, the pixels joined to the seed through
\* pixels at distance at most 11999.
C13_StrictThreshold ==
  (SeedInBounds /\ SeedColour # TargetColour) =>
    /\ \A p \in Overwritten : SeedDistance(p) <= 11999
    /\ \A p \in FillPixels :
         SeedDistance(p) >= 12000 =>
           (Now(p) = Before(p) /\ fill.seen[p] = 0 /\ p \notin Overwritten)
    /\ Overwritten \subseteq RegionBelow12000
    /\ FillDone => Overwritten = RegionBelow12000

\* A finished fill that overwrote a pixel at distance exactly 11999, left a
\* pixel at distance exactly 12000 next to an overwritten one untouched, and
\* did not reach a pixel of the seed's own colour lying behind the boundary.
C13_Witness ==
  /\ FillDone
  /\ SeedInBounds /\ SeedColour # TargetColour
  /\ \E p \in Overwritten : SeedDistance(p) = 11999
  /\ \E q \in FillPixels \ Overwritten :
       /\ SeedDistance(q) = 12000
       /\ Now(q) = Before(q)
       /\ \E p \in Overwritten : Adjacent(p, q)
  /\ \E r \in FillPixels \ Overwritten : Before(r) = SeedColour

(***************************************************************************)
(* Properties of the import                                                *)
(***************************************************************************)

\* A step of the import other than the load of the converted image: the file
\* chooser opens or closes, the file read or the conversion ends, the busy
\* state or the imported URL changes, or an image starts loading or fails to
\* load.
ImportStep ==
  \/ fileDialog' # fileDialog
  \/ reads' # reads
  \/ requests' # requests
  \/ isGenerating' # isGenerating
  \/ importedSvg' # importedSvg
  \/ (importImgs' # importImgs /\ nextId' = nextId)

\* The conversion ends by throwing (API error, or a text without '<svg').
ConversionFails == requests' = requests - 1 /\ importedSvg' = importedSvg

\* The file read ends without a result.
ReadFails == reads' = reads - 1 /\ requests' = requests

\* C14: no step of an import other than the load of the converted image
\* touches the buffer, the history or the stored image; and when the
\* conversion throws, the file read fails or the converted image fails to
\* load, no image load is started or left pending by it, so that load never
\* happens: the buffer is as before the attempt and no snapshot is pushed.
C14_FailedImportLeavesCanvas ==
  [][/\ ImportStep =>
          (canvas' = canvas /\ history' = history /\ stored' = stored
             /\ nextId' = nextId)
     /\ (ConversionFails \/ ReadFails) =>
          (importImgs' = importImgs /\ effects' = effects)
     /\ (importImgs' # importImgs /\ nextId' = nextId /\ importedSvg' = importedSvg
           /\ effects' = effects) =>
          importImgs' \subseteq importImgs
    ]_vars

\* A converted image that failed to load: the URL is set, no load is pending,
\* and the history still holds only the initial snapshot of a blank canvas.
C14_Witness ==
  /\ importedSvg # Null
  /\ importImgs = {}
  /\ effects = {}
  /\ ~isGenerating
  /\ history = <<InitialSnapshot>>
  /\ canvas = fillRectWhite
  /\ stored = Null

\* C15: at most one file read or conversion request is outstanding at any
\* time, the busy state is set for as long as one is, and while it is set the
\* file chooser cannot be opened: no further import can be started.
C15_OneImportInFlight ==
  /\ requests <= 1
  /\ reads + requests <= 1
  /\ (reads + requests > 0) => isGenerating
  /\ isGenerating => ~fileDialog

\* A conversion request is pending, busy, after the user has drawn and
\* pressed undo.
C15_Witness ==
  /\ requests = 1
  /\ reads = 0
  /\ isGenerating
  /\ ~fileDialog
  /\ nextId >= 2
  /\ triggerUndo >= 1

(***************************************************************************)
(* Properties of the asynchronous completions                              *)
(***************************************************************************)

\* C16 (as claimed): once the history holds snapshots, a step leaves it as it
\* is, removes its last snapshot on an undo request, appends the snapshot of
\* the canvas, or (when full) evicts the oldest and appends; and the load of
\* the stored canvas image does not change the pixels of a canvas whose
\* history already holds a snapshot.
C16_HistoryLeavesByUndoOrEviction ==
  [][(history # <<>>) =>
       /\ \/ history' = history
          \/ (UndoHandled /\ history' = SubSeq(history, 1, Len(history) - 1))
          \/ (Len(history) < HistoryCap
                /\ history' = Append(history, getImageData(canvas', nextId)))
          \/ (Len(history) = HistoryCap
                /\ history' = Tail(history) \o <<getImageData(canvas', nextId)>>)
       /\ (savedImg # Null /\ savedImg' = Null) => canvas' = canvas
    ]_vars

\* The stored image loaded after a first gesture was committed: the history
\* holds one snapshot, not the first one taken, though no undo was requested
\* and the history was never full; the canvas shows the stored drawing alone
\* while localStorage holds the canvas with the gesture.
C16_Witness ==
  /\ mounted /\ savedImg = Null
  /\ triggerUndo = 0
  /\ nextId = 2
  /\ Len(history) = 1
  /\ history[1].id = 1
  /\ canvas = SavedDrawing
  /\ stored # Null
  /\ decode(stored) # canvas

\* The step removes the last snapshot of the history.
UndoPop ==
  Len(history) > 1 /\ history' = SubSeq(history, 1, Len(history) - 1)

\* The undo effect runs and finds no new request.
UndoRerun ==
  /\ "undo" \in effects /\ "undo" \notin effects'
  /\ prevTriggerUndo' = prevTriggerUndo

\* C17: each undo request is applied at most once. A request is one
\* increment of triggerUndo, and at most one is outstanding when the effect
\* runs; a step pops the history only while handling an outstanding request,
\* which it consumes; a run of the effect without a new request (after a
\* history change) changes neither history nor canvas; and a request handled
\* with at most one snapshot is consumed without a pop, so later growth of the
\* history does not apply it.
C17_UndoAppliedAtMostOnce ==
  [][/\ triggerUndo' \in {triggerUndo, triggerUndo + 1}
     /\ prevTriggerUndo' <= triggerUndo'
     /\ triggerUndo' - prevTriggerUndo' <= 1
     /\ UndoPop =>
          (prevTriggerUndo # triggerUndo /\ prevTriggerUndo' = triggerUndo)
     /\ UndoHandled =>
          (prevTriggerUndo' = triggerUndo /\ triggerUndo' = triggerUndo)
     /\ (UndoHandled /\ Len(history) <= 1) =>
          (history' = history /\ canvas' = canvas)
     /\ UndoRerun => (history' = history /\ canvas' = canvas)
    ]_vars

\* Requests were made and consumed while the initial snapshot was alone;
\* two gestures later the history holds all three snapshots ever taken and
\* the effect's re-runs have popped nothing.
C17_Witness ==
  /\ triggerUndo >= 1
  /\ prevTriggerUndo = triggerUndo
  /\ effects = {}
  /\ nextId = 3
  /\ Len(history) = 3
  /\ history[1] = InitialSnapshot
  /\ canvas = Last(history).data

\* C18 (as claimed): whenever the busy state is set it is eventually cleared.
C18_BusyEventuallyClears == isGenerating ~> ~isGenerating

\* The busy state is set and neither a file read nor a conversion request is
\* outstanding.
StuckBusy == isGenerating /\ reads = 0 /\ requests = 0

\* C18: what the code does instead. The busy state is cleared only by the
\* settlement of a conversion request, a request is made only by the end of a
\* file read with a result, and a read is started only by a file selection,
\* which needs the busy state clear: once the busy state is set with nothing
\* outstanding it stays set, and no import can be started, for ever.
C18_StuckBusyIsPermanent ==
  [][/\ (isGenerating /\ ~isGenerating') => requests' = requests - 1
     /\ requests' > requests => reads' = reads - 1
     /\ reads' > reads => (fileDialog /\ ~isGenerating)
     /\ StuckBusy => (StuckBusy' /\ ~fileDialog')
    ]_vars

\* C18: on every other path the claim holds. Given that effects run, reads
\* end and requests settle, the busy state is eventually cleared unless a
\* file read ended without a result and left it set with nothing outstanding.
C18_ClearsUnlessReadFails == isGenerating ~> (~isGenerating \/ StuckBusy)

\* A file read has ended without a result: the busy state is set and nothing
\* is outstanding that could clear it, while the canvas lies under the busy
\* overlay.
C18_Witness ==
  /\ StuckBusy
  /\ ~fileDialog
  /\ effects = {}
  /\ mounted

====
